---------------------------- MODULE Spec2Model ----------------------------
(***************************************************************************)
(* A model of sortphotos.py: enumeration of the source tree, resolution of *)
(* each file's date, composition of the destination path, the collision    *)
(* loop and the final move or copy.                                        *)
(*                                                                         *)
(* Strings are sequences of one-character strings, so that splitting,      *)
(* case folding, purging and suffixing are computed and not assumed.       *)
(* A raised Python exception is a record whose exc field names it.         *)
(***************************************************************************)
EXTENDS Integers, Sequences, FiniteSets, TLC

VARIABLES
    host,             \* "linux", "darwin" or "nt": what sys.platform and os.name tell
    src_exists,       \* os.path.exists(src_dir)
    dest_exists,      \* os.path.exists(dest_dir)
    extensions,       \* the configured extension list
    move_files, removeDuplicates, ignore_exif, day_begins, rename,
    src,              \* source tree: path -> file, for the files that exist
    dest,             \* destination tree: path -> file, for the files that exist
    destDirs,         \* directories made under dest_dir
    pc,               \* position of the process in sortphotos()
    matched_files, idx, src_file,
    date, model, dest_file, root, ext, append, fileIsIdentical,
    run,              \* number of the current invocation of the script
    hist,             \* history: snapshots and the record of the last write
    arg, res          \* argument and result of a helper applied on its own

vars == << host, src_exists, dest_exists, extensions, move_files,
           removeDuplicates, ignore_exif, day_begins, rename, src, dest,
           destDirs, pc, matched_files, idx, src_file, date, model, dest_file,
           root, ext, append, fileIsIdentical, run, hist, arg, res >>

-----------------------------------------------------------------------------
(* Characters and strings *)

LowerAlpha == << "a","b","c","d","e","f","g","h","i","j","k","l","m",
                 "n","o","p","q","r","s","t","u","v","w","x","y","z" >>
UpperAlpha == << "A","B","C","D","E","F","G","H","I","J","K","L","M",
                 "N","O","P","Q","R","S","T","U","V","W","X","Y","Z" >>
DigitChars == << "0","1","2","3","4","5","6","7","8","9" >>

Range(s) == { s[i] : i \in DOMAIN s }

IndexOf(c, s) == CHOOSE i \in DOMAIN s : s[i] = c

\* str.lower() and str.upper(), character by character
LowerChar(c) == IF c \in Range(UpperAlpha) THEN LowerAlpha[IndexOf(c, UpperAlpha)] ELSE c
UpperChar(c) == IF c \in Range(LowerAlpha) THEN UpperAlpha[IndexOf(c, LowerAlpha)] ELSE c
Lower(s) == [ i \in DOMAIN s |-> LowerChar(s[i]) ]
Upper(s) == [ i \in DOMAIN s |-> UpperChar(s[i]) ]

\* str(n) for n >= 0
RECURSIVE Str(_)
Str(n) == IF n < 10 THEN << DigitChars[n + 1] >>
          ELSE Str(n \div 10) \o << DigitChars[(n % 10) + 1] >>

\* n rendered with at least w digits, zero padded (strftime's %Y %m %d %H %M %S)
RECURSIVE Pad(_, _)
Pad(s, w) == IF Len(s) >= w THEN s ELSE Pad(<< "0" >> \o s, w)
Fmt(n, w) == Pad(Str(n), w)

\* the characters purge_string keeps
allowed == << ".", "0","1","2","3","4","5","6","7","8","9", "-" >>
           \o UpperAlpha \o << "_" >> \o LowerAlpha

purge_string(s) == SelectSeq(s, LAMBDA x : x \in Range(allowed))

\* index of the last "." of s, 0 when there is none
LastDot(s) == IF \E i \in DOMAIN s : s[i] = "."
              THEN CHOOSE i \in DOMAIN s :
                       s[i] = "." /\ \A j \in DOMAIN s : s[j] = "." => j <= i
              ELSE 0

\* os.path.splitext of a name without directory part: the extension starts at
\* the last dot, unless only dots precede it
splitext(s) ==
    LET d == LastDot(s)
        leading == \A j \in 1..d : s[j] = "."
    IN IF d = 0 \/ leading
       THEN << s, << >> >>
       ELSE << SubSeq(s, 1, d - 1), SubSeq(s, d, Len(s)) >>

-----------------------------------------------------------------------------
(* Calendar arithmetic of datetime and timedelta *)

MINYEAR == 1
MAXYEAR == 9999

IsLeap(y) == (y % 4 = 0) /\ ((y % 100 # 0) \/ (y % 400 = 0))

DaysInMonth(y, m) ==
    IF m = 2 THEN (IF IsLeap(y) THEN 29 ELSE 28)
    ELSE IF m \in {4, 6, 9, 11} THEN 30 ELSE 31

RECURSIVE DaysBeforeMonth(_, _)
DaysBeforeMonth(y, m) ==
    IF m = 1 THEN 0 ELSE DaysBeforeMonth(y, m - 1) + DaysInMonth(y, m - 1)

DaysBeforeYear(y) ==
    LET p == y - 1 IN p * 365 + (p \div 4) - (p \div 100) + (p \div 400)

\* proleptic Gregorian ordinal, 0001-01-01 is day 1
Ymd2Ord(y, m, d) == DaysBeforeYear(y) + DaysBeforeMonth(y, m) + d

RECURSIVE MonthOfDay(_, _, _)
MonthOfDay(y, m, n) ==
    IF n < DaysInMonth(y, m) THEN << m, n + 1 >>
    ELSE MonthOfDay(y, m + 1, n - DaysInMonth(y, m))

\* the inverse of Ymd2Ord, by the 400/100/4/1 year cycles
Ord2Ymd(ord) ==
    LET n0   == ord - 1
        n400 == n0 \div 146097
        r400 == n0 % 146097
        n100 == r400 \div 36524
        r100 == r400 % 36524
        n4   == r100 \div 1461
        r4   == r100 % 1461
        n1   == r4 \div 365
        r1   == r4 % 365
        y    == n400 * 400 + 1 + n100 * 100 + n4 * 4 + n1
    IN IF n1 = 4 \/ n100 = 4
       THEN << y - 1, 12, 31 >>
       ELSE LET md == MonthOfDay(y, 1, r1) IN << y, md[1], md[2] >>

NoDate == [ year |-> 0, month |-> 0, day |-> 0, hour |-> 0, minute |-> 0, second |-> 0 ]

Ok(d)     == [ exc |-> "none", val |-> d ]
Raise(e)  == [ exc |-> e, val |-> NoDate ]

\* datetime(year, month, day, hour, minute, second): ValueError out of range
datetime(y, mo, d, h, mi, s) ==
    IF /\ y \in MINYEAR..MAXYEAR
       /\ mo \in 1..12
       /\ d >= 1 /\ d <= DaysInMonth(y, mo)
       /\ h \in 0..23 /\ mi \in 0..59 /\ s \in 0..59
    THEN Ok([ year |-> y, month |-> mo, day |-> d,
              hour |-> h, minute |-> mi, second |-> s ])
    ELSE Raise("ValueError")

\* date - timedelta(hours=k): OverflowError when the result leaves MINYEAR
MinusHours(dt, k) ==
    LET secs  == dt.hour * 3600 + dt.minute * 60 + dt.second - k * 3600
        carry == IF secs < 0 THEN ((-secs) + 86399) \div 86400 ELSE 0
        s     == secs + carry * 86400
        ord   == Ymd2Ord(dt.year, dt.month, dt.day) - carry
    IN IF ord < 1
       THEN Raise("OverflowError")
       ELSE LET ymd == Ord2Ymd(ord)
            IN Ok([ year |-> ymd[1], month |-> ymd[2], day |-> ymd[3],
                    hour |-> s \div 3600, minute |-> (s % 3600) \div 60,
                    second |-> s % 60 ])

check_for_early_morning_photos_HourOnly(dt, dayBegins) ==
    IF dt.hour < dayBegins THEN MinusHours(dt, dt.hour) ELSE Ok(dt)

\* lines 65-71
check_for_early_morning_photos(dt, dayBegins) ==
    IF dt.hour < dayBegins THEN MinusHours(dt, dt.hour + 1) ELSE Ok(dt)

-----------------------------------------------------------------------------
(* Metadata values.  A field value is what str(value).strip().split() gives: *)
(* a sequence of elements, each element the sequence of its ":"-separated    *)
(* entries.  An entry is numeric text, written zero padded as EXIF does and  *)
(* held as the number it spells, or alphabetic text, or the empty string.    *)
(* An absent field is << >>.                                                 *)

Num(n)   == n
Alpha    == -1
Empty    == -2

\* the string comparison  entry > '0000'
GreaterThan0000(e) == e > 0 \/ e = Alpha

\* int(entry) succeeds
IsInt(e) == e >= 0

\* lines 74-88
valid_date(elements) ==
    IF Len(elements) < 1 THEN FALSE
    ELSE LET date_entries == elements[1]
             validDate == Len(date_entries) = 3 /\ GreaterThan0000(date_entries[1])
             validTime == IF Len(elements) > 1 THEN Len(elements[2]) = 3 ELSE TRUE
         IN validDate /\ validTime

\* lines 26-50; IndexError for a missing entry, ValueError from int() or datetime()
parse_date_exif(elements) ==
    IF Len(elements) < 1 \/ Len(elements[1]) < 3 THEN Raise("IndexError")
    ELSE LET de == elements[1] IN
         IF ~ (IsInt(de[1]) /\ IsInt(de[2]) /\ IsInt(de[3])) THEN Raise("ValueError")
         ELSE IF Len(elements) > 1
              THEN LET te == elements[2] IN
                   IF Len(te) < 3
                   THEN (IF \E i \in DOMAIN te : ~ IsInt(te[i])
                         THEN Raise("ValueError") ELSE Raise("IndexError"))
                   ELSE IF ~ (IsInt(te[1]) /\ IsInt(te[2]) /\ IsInt(te[3]))
                        THEN Raise("ValueError")
                        ELSE datetime(de[1], de[2], de[3], te[1], te[2], te[3])
              ELSE datetime(de[1], de[2], de[3], 12, 0, 0)

\* lines 98-109 and 57-60: the time stamp the platform hands out
get_creation_time(f) ==
    IF host = "linux" THEN f.mtime ELSE f.btime

\* lines 53-62: datetime.fromtimestamp, the local time zone being UTC
parse_date_tstamp(f) ==
    LET t   == get_creation_time(f)
        ymd == Ord2Ymd(719163 + (t \div 86400))
        s   == t % 86400
    IN Ok([ year |-> ymd[1], month |-> ymd[2], day |-> ymd[3],
            hour |-> s \div 3600, minute |-> (s % 3600) \div 60, second |-> s % 60 ])

\* lines 172-192: the date of a file; degraded tells that it is the time stamp
ResolveDate(f, ignoreExif) ==
    LET tags == f.content.exif IN
    IF ignoreExif THEN [ r |-> parse_date_tstamp(f), degraded |-> TRUE ]
    ELSE IF tags.DateTimeOriginal # << >> /\ valid_date(tags.DateTimeOriginal)
         THEN [ r |-> parse_date_exif(tags.DateTimeOriginal), degraded |-> FALSE ]
    ELSE IF tags.DateTimeDigitized # << >> /\ valid_date(tags.DateTimeDigitized)
         THEN [ r |-> parse_date_exif(tags.DateTimeDigitized), degraded |-> FALSE ]
    ELSE IF tags.ImageDateTime # << >> /\ valid_date(tags.ImageDateTime)
         THEN [ r |-> parse_date_exif(tags.ImageDateTime), degraded |-> FALSE ]
    ELSE [ r |-> parse_date_tstamp(f), degraded |-> TRUE ]

NoModel == [ present |-> FALSE, values |-> << >> ]

\* lines 172-174 and 194-197
ResolveModel(f, ignoreExif) ==
    IF ignoreExif THEN NoModel ELSE f.content.exif.Model

-----------------------------------------------------------------------------
(* Path composition, lines 203-222, with the default sort format %Y/%m *)

\* date.strftime raises ValueError for a year before 1900
StrftimeRaises(dt) == dt.year < 1900

\* date.strftime('%Y/%m').split('/')
DirsOf(dt) == << Fmt(dt.year, 4), Fmt(dt.month, 2) >>

\* date.strftime('%Y-%m-%d_%H%M%S')
DateStamp(dt) ==
    Fmt(dt.year, 4) \o << "-" >> \o Fmt(dt.month, 2) \o << "-" >> \o Fmt(dt.day, 2)
    \o << "_" >> \o Fmt(dt.hour, 2) \o Fmt(dt.minute, 2) \o Fmt(dt.second, 2)

NewName_LowerExt(dt, mdl, name) ==
    LET se  == splitext(name)
        tag == IF mdl.present THEN mdl.values ELSE se[1]
    IN DateStamp(dt) \o << "_" >> \o purge_string(tag) \o Lower(se[2])

\* lines 214-218
NewName(dt, mdl, name) ==
    LET se  == splitext(name)
        tag == IF mdl.present THEN mdl.values ELSE se[1]
    IN DateStamp(dt) \o << "_" >> \o purge_string(tag) \o se[2]

\* lines 213-221
DestName(dt, mdl, name, doRename) ==
    IF doRename THEN NewName(dt, mdl, name) ELSE name

Path(d, n) == [ dir |-> d, name |-> n ]

\* line 236: root + '_' + str(append) + ext
Suffixed(rt, k, e) == Path(rt.dir, rt.name \o << "_" >> \o Str(k) \o e)

-----------------------------------------------------------------------------
(* Files.  A file's content is its embedded metadata and its body; its size *)
(* is decided by the content.  The destination tree keeps, for each file,   *)
(* the content and the modification time.                                   *)

st_size(c) == Len(c.body)

StatOf(f) == [ content |-> f.content, mtime |-> f.mtime ]

\* line 231: filecmp.cmp(src_file, dest_file) with its default shallow=True.
\* Equal (size, mtime) signatures are taken as equal files without reading
\* them; otherwise sizes, then bytes, are compared.
filecmp_cmp(f1, f2) ==
    IF st_size(f1.content) = st_size(f2.content) /\ f1.mtime = f2.mtime THEN TRUE
    ELSE IF st_size(f1.content) # st_size(f2.content) THEN FALSE
    ELSE f1.content = f2.content

Contents(tree) == { tree[p].content : p \in DOMAIN tree }

Without(tree, p) == [ q \in (DOMAIN tree) \ {p} |-> tree[q] ]

With(tree, p, f) == [ q \in (DOMAIN tree) \cup {p} |-> IF q = p THEN f ELSE tree[q] ]

EmptyTree == [ q \in {} |-> 0 ]

-----------------------------------------------------------------------------
(* Enumeration, lines 133-154 *)

EndsWith(s, t) == Len(s) >= Len(t) /\ SubSeq(s, Len(s) - Len(t) + 1, Len(s)) = t

\* os.path.normcase
normcase(s) == IF host = "nt" THEN Lower(s) ELSE s

\* fnmatch.filter(filenames, '*.' + e)
fnmatch_filter(filenames, e) ==
    SelectSeq(filenames, LAMBDA n : EndsWith(normcase(n), normcase(<< "." >> \o e)))

case_sensitive_os == normcase(<< "A" >>) # normcase(<< "a" >>)

\* lines 148-150
MatchesOf(filenames, e) ==
    fnmatch_filter(filenames, Lower(e))
    \o (IF case_sensitive_os THEN fnmatch_filter(filenames, Upper(e)) ELSE << >>)

RECURSIVE OverExtensions(_, _, _)
OverExtensions(d, filenames, exts) ==
    IF exts = << >> THEN << >>
    ELSE LET m == MatchesOf(filenames, Head(exts))
         IN [ i \in DOMAIN m |-> Path(d, m[i]) ] \o OverExtensions(d, filenames, Tail(exts))

\* the names os.walk reports for directory d, in the order of the listing
FilenamesIn(listing, tree, d) ==
    LET ps == SelectSeq(listing, LAMBDA q : q \in DOMAIN tree /\ q.dir = d)
    IN [ i \in DOMAIN ps |-> ps[i].name ]

RECURSIVE OverDirs(_, _, _, _)
OverDirs(listing, tree, ds, exts) ==
    IF ds = << >> THEN << >>
    ELSE OverExtensions(Head(ds), FilenamesIn(listing, tree, Head(ds)), exts)
         \o OverDirs(listing, tree, Tail(ds), exts)

-----------------------------------------------------------------------------
(* The source tree as os.walk reports it: the directories in walk order and *)
(* the order in which a directory lists its names.                          *)

SrcDirs == << "top", "sub" >>

NameA    == << "a", ".", "j", "p", "g" >>
NameBUp  == << "b", ".", "J", "P", "G" >>
NameCMix == << "c", ".", "J", "p", "g" >>
NameD    == << "d", " ", "e", ".", "J", "p", "e", "g" >>
NameE    == << "e", ".", "7" >>
NameF    == << "f", ".", "p", "n", "g" >>

SrcListing ==
    << Path("top", NameA), Path("top", NameBUp), Path("top", NameCMix),
       Path("top", NameD), Path("top", NameE), Path("top", NameF),
       Path("sub", NameA), Path("sub", NameBUp) >>

\* lines 133-154
Enumerate(tree, exts) == OverDirs(SrcListing, tree, SrcDirs, exts)

-----------------------------------------------------------------------------
(* State of the process between files *)

NoPath == Path(<< >>, << >>)

NoHist == [ srcBefore |-> EmptyTree, destBefore |-> EmptyTree,
            outcome |-> "none", overwrote |-> FALSE, degraded |-> FALSE,
            exc |-> "none", destAfterRun |-> EmptyTree, prevDone |-> FALSE,
            src0 |-> EmptyTree, dest0 |-> EmptyTree, external |-> EmptyTree ]

Locals0 ==
    /\ matched_files = << >>
    /\ idx = 0
    /\ src_file = NoPath
    /\ date = NoDate
    /\ model = NoModel
    /\ dest_file = NoPath
    /\ root = NoPath
    /\ ext = << >>
    /\ append = 1
    /\ fileIsIdentical = FALSE

ConfigUnchanged ==
    UNCHANGED << host, src_exists, dest_exists, extensions, move_files,
                 removeDuplicates, ignore_exif, day_begins, rename >>

LocalsUnchanged ==
    UNCHANGED << src_file, date, model, dest_file, root, ext, append, fileIsIdentical >>

\* every prefix of the directory sequence, as os.makedirs leaves them
Prefixes(ds) == { SubSeq(ds, 1, k) : k \in 1..Len(ds) }

-----------------------------------------------------------------------------
(* The operations of sortphotos() *)

\* lines 126-159: pre-flight checks and enumeration
Start ==
    /\ pc = "start"
    /\ IF ~ src_exists \/ ~ dest_exists
       THEN /\ pc' = "raised"
            /\ hist' = [ hist EXCEPT !.exc = "preflight" ]
            /\ UNCHANGED << matched_files, idx >>
       ELSE /\ matched_files' = Enumerate(src, extensions)
            /\ idx' = 0
            /\ pc' = "next"
            /\ hist' = [ hist EXCEPT !.outcome = "none" ]
    /\ LocalsUnchanged
    /\ ConfigUnchanged
    /\ UNCHANGED << src, dest, destDirs, run, arg, res >>

StopWith(e, path) ==
    /\ pc' = "raised"
    /\ hist' = [ hist EXCEPT !.exc = e, !.outcome = "none" ]
    /\ src_file' = path
    /\ UNCHANGED << date, model, dest_file, root, ext, append, fileIsIdentical, destDirs >>

Composed(e, dt, mdl, dg, pth) ==
    [ exc |-> e, date |-> dt, model |-> mdl, degraded |-> dg, path |-> pth ]

\* lines 172-221: date, model and candidate path of file f named name, or the
\* exception that ends the run
Compose(f, name) ==
    LET rd == ResolveDate(f, ignore_exif) IN
    IF rd.r.exc # "none" THEN Composed(rd.r.exc, NoDate, NoModel, rd.degraded, NoPath)
    ELSE LET em == check_for_early_morning_photos(rd.r.val, day_begins) IN
         IF em.exc # "none" THEN Composed(em.exc, NoDate, NoModel, rd.degraded, NoPath)
         ELSE IF StrftimeRaises(em.val)
              THEN Composed("ValueError", NoDate, NoModel, rd.degraded, NoPath)
              ELSE LET mdl == ResolveModel(f, ignore_exif)
                   IN Composed("none", em.val, mdl, rd.degraded,
                               Path(DirsOf(em.val), DestName(em.val, mdl, name, rename)))

\* lines 162-226: the next file of the list, up to the collision loop
NextFile ==
    /\ pc = "next"
    /\ idx < Len(matched_files)
    /\ idx' = idx + 1
    /\ LET path == matched_files[idx + 1] IN
       IF path \notin DOMAIN src
       THEN StopWith("IOError", path)
       ELSE LET c == Compose(src[path], path.name) IN
            IF c.exc # "none" THEN StopWith(c.exc, path)
            ELSE LET se == splitext(c.path.name)
                 IN /\ src_file' = path
                    /\ date' = c.date
                    /\ model' = c.model
                    /\ destDirs' = destDirs \cup Prefixes(c.path.dir)
                    /\ dest_file' = c.path
                    /\ root' = Path(c.path.dir, se[1])
                    /\ ext' = se[2]
                    /\ append' = 1
                    /\ fileIsIdentical' = FALSE
                    /\ pc' = "loop"
                    /\ hist' = [ hist EXCEPT !.srcBefore = src,
                                             !.destBefore = dest,
                                             !.degraded = c.degraded,
                                             !.outcome = "none" ]
    /\ ConfigUnchanged
    /\ UNCHANGED << src, dest, matched_files, run, arg, res >>

Loop_KeepAll ==
    /\ pc = "loop"
    /\ IF dest_file \in DOMAIN dest
       THEN /\ dest_file' = Suffixed(root, append, ext)
            /\ append' = append + 1
            /\ UNCHANGED << fileIsIdentical, pc >>
       ELSE /\ pc' = "transfer"
            /\ UNCHANGED << fileIsIdentical, dest_file, append >>
    /\ ConfigUnchanged
    /\ UNCHANGED << src, dest, destDirs, matched_files, idx, src_file, date, model,
                    root, ext, run, hist, arg, res >>

\* lines 228-240: one iteration of the collision loop
Loop ==
    /\ pc = "loop"
    /\ IF dest_file \in DOMAIN dest
       THEN IF removeDuplicates /\ filecmp_cmp(src[src_file], dest[dest_file])
            THEN /\ fileIsIdentical' = TRUE
                 /\ pc' = "transfer"
                 /\ UNCHANGED << dest_file, append >>
            ELSE /\ dest_file' = Suffixed(root, append, ext)
                 /\ append' = append + 1
                 /\ UNCHANGED << fileIsIdentical, pc >>
       ELSE /\ pc' = "transfer"
            /\ UNCHANGED << fileIsIdentical, dest_file, append >>
    /\ ConfigUnchanged
    /\ UNCHANGED << src, dest, destDirs, matched_files, idx, src_file, date, model,
                    root, ext, run, hist, arg, res >>

Transfer_KeepSource ==
    /\ pc = "transfer"
    /\ IF fileIsIdentical
       THEN /\ UNCHANGED << src, dest >>
            /\ hist' = [ hist EXCEPT !.outcome = "skipped", !.overwrote = FALSE ]
       ELSE /\ dest' = With(dest, dest_file, StatOf(src[src_file]))
            /\ src' = src
            /\ hist' = [ hist EXCEPT !.outcome = "copied",
                                     !.overwrote = (dest_file \in DOMAIN dest) ]
    /\ pc' = "next"
    /\ ConfigUnchanged
    /\ LocalsUnchanged
    /\ UNCHANGED << destDirs, matched_files, idx, run, arg, res >>

\* lines 243-250: shutil.move, or shutil.copy2 unless the file was found identical
Transfer ==
    /\ pc = "transfer"
    /\ IF move_files
       THEN /\ dest' = With(dest, dest_file, StatOf(src[src_file]))
            /\ src' = Without(src, src_file)
            /\ hist' = [ hist EXCEPT !.outcome = IF fileIsIdentical THEN "skipped" ELSE "moved",
                                     !.overwrote = (dest_file \in DOMAIN dest) ]
       ELSE IF fileIsIdentical
            THEN /\ UNCHANGED << src, dest >>
                 /\ hist' = [ hist EXCEPT !.outcome = "skipped", !.overwrote = FALSE ]
            ELSE /\ dest' = With(dest, dest_file, StatOf(src[src_file]))
                 /\ src' = src
                 /\ hist' = [ hist EXCEPT !.outcome = "copied",
                                          !.overwrote = (dest_file \in DOMAIN dest) ]
    /\ pc' = "next"
    /\ ConfigUnchanged
    /\ LocalsUnchanged
    /\ UNCHANGED << destDirs, matched_files, idx, run, arg, res >>

\* line 253: the list is exhausted
Finish ==
    /\ pc = "next"
    /\ idx = Len(matched_files)
    /\ pc' = "done"
    /\ hist' = [ hist EXCEPT !.outcome = "none" ]
    /\ ConfigUnchanged
    /\ LocalsUnchanged
    /\ UNCHANGED << src, dest, destDirs, matched_files, idx, run, arg, res >>

MaxRuns == 2

\* lines 284-288: the script is invoked again with the same arguments
Rerun ==
    /\ pc \in { "done", "raised" }
    /\ hist.exc # "preflight"
    /\ run < MaxRuns
    /\ run' = run + 1
    /\ pc' = "start"
    /\ hist' = [ hist EXCEPT !.destAfterRun = dest, !.prevDone = (pc = "done"),
                             !.exc = "none", !.outcome = "none" ]
    /\ matched_files' = << >>
    /\ idx' = 0
    /\ src_file' = NoPath
    /\ date' = NoDate
    /\ model' = NoModel
    /\ dest_file' = NoPath
    /\ root' = NoPath
    /\ ext' = << >>
    /\ append' = 1
    /\ fileIsIdentical' = FALSE
    /\ ConfigUnchanged
    /\ UNCHANGED << src, dest, destDirs, arg, res >>

Next == Start \/ NextFile \/ Loop \/ Transfer \/ Finish \/ Rerun

-----------------------------------------------------------------------------
(* Bounded inputs *)

\* "2020:06:15 14:15:00"
Stamp2020 == << << Num(2020), Num(6), Num(15) >>, << Num(14), Num(15), Num(0) >> >>

ModelX1 == [ present |-> TRUE, values |-> << "X", "-", "1" >> ]

NoExif == [ DateTimeOriginal |-> << >>, DateTimeDigitized |-> << >>,
            ImageDateTime |-> << >>, Model |-> NoModel ]

ExifCam == [ NoExif EXCEPT !.DateTimeOriginal = Stamp2020, !.Model = ModelX1 ]

File(e, b, t) == [ content |-> [ exif |-> e, body |-> b ], mtime |-> t, btime |-> t ]

\* two pictures of one burst: same camera, same second, same size, same
\* modification time, different bytes; and a third of another size, written later
PlaceFiles == { File(ExifCam, << 1 >>, 1592230500),
                File(ExifCam, << 2 >>, 1592230500),
                File(ExifCam, << 1, 2 >>, 1592230560) }

\* what may lie in the destination before the run
SeedFiles == { StatOf(File(ExifCam, << 1 >>, 1592230500)),
               StatOf(File(ExifCam, << 1 >>, 1592230560)),
               StatOf(File(ExifCam, << 3 >>, 1592230560)) }

PlacePaths == { Path("top", NameA), Path("sub", NameA), Path("top", NameBUp) }

MaxFiles == 2
MaxSeeds == 1

Trees(paths, files, max) ==
    UNION { [ D -> files ] : D \in { X \in SUBSET paths : Cardinality(X) <= max } }

Dir2020 == << << "2", "0", "2", "0" >>, << "0", "6" >> >>

\* the paths the files named a.jpg are tried at, for the naming in force
SeedPaths(doRename) ==
    LET nm == IF doRename
              THEN NewName(parse_date_exif(Stamp2020).val, ModelX1, NameA)
              ELSE NameA
        se == splitext(nm)
    IN { Path(Dir2020, nm), Suffixed(Path(Dir2020, se[1]), 1, se[2]) }

Fresh ==
    /\ pc = "start"
    /\ run = 1
    /\ Locals0
    /\ destDirs = { p.dir : p \in DOMAIN dest } \cup
                  UNION { Prefixes(p.dir) : p \in DOMAIN dest }
    /\ hist = [ NoHist EXCEPT !.src0 = src, !.dest0 = dest ]
    /\ arg = << >>
    /\ res = << >>

InitPlace ==
    /\ host = "linux"
    /\ extensions = << << "j", "p", "g" >> >>
    /\ ignore_exif = FALSE
    /\ day_begins = 0
    /\ move_files \in BOOLEAN
    /\ removeDuplicates \in BOOLEAN
    /\ rename \in BOOLEAN
    /\ \/ /\ src_exists = TRUE /\ dest_exists = TRUE
          /\ src \in Trees(PlacePaths, PlaceFiles, MaxFiles)
          /\ dest \in Trees(SeedPaths(rename), SeedFiles, MaxSeeds)
       \/ /\ src_exists \in BOOLEAN
          /\ dest_exists = ~ src_exists
          /\ src = EmptyTree
          /\ dest = EmptyTree
    /\ Fresh

Spec == InitPlace /\ [][Next]_vars

-----------------------------------------------------------------------------
(* Placement: what a run does to the two trees *)

Placed == pc = "next" /\ hist.outcome # "none"

\* C1: after each placement step, every content that was in the source or the
\* destination tree before the step is still the content of some file.
C1_NoDataDestroyed ==
    Placed => (Contents(hist.srcBefore) \cup Contents(hist.destBefore))
                  \subseteq (Contents(src) \cup Contents(dest))

\* C2: no placement writes onto a path that holds a file; in particular a file
\* found identical is not written to, in move mode as in copy mode.
C2_NeverOverwritten ==
    Placed => ~ hist.overwrote

\* C3: in copy mode with duplicate removal, a later run over the unchanged
\* source and the destination the earlier run produced leaves the destination
\* as it was, and every file ends its collision loop as an identical duplicate.
C3_RerunIdempotent ==
    (run > 1 /\ hist.prevDone /\ ~ move_files /\ removeDuplicates)
        => /\ src = hist.src0
           /\ dest = hist.destAfterRun
           /\ (pc = "transfer" => fileIsIdentical)

\* a second run reaches, past the unsuffixed name, the suffixed copy the first made
C3_Witness ==
    /\ run = 2 /\ hist.prevDone /\ ~ move_files /\ removeDuplicates
    /\ pc = "transfer" /\ fileIsIdentical
    /\ append = 2
    /\ dest_file \notin DOMAIN hist.dest0

SameBytes == hist.destBefore[dest_file].content = hist.srcBefore[src_file].content

\* C4: when the collision loop ended on an existing identical file, copy mode
\* leaves source and destination as they were; move mode removes the source
\* file and leaves the destination's paths and contents as they were.
C4_SkippedDuplicateEffect ==
    (Placed /\ hist.outcome = "skipped" /\ removeDuplicates)
        => IF move_files
           THEN SameBytes =>
                    /\ src = Without(hist.srcBefore, src_file)
                    /\ DOMAIN dest = DOMAIN hist.destBefore
                    /\ \A q \in DOMAIN dest : dest[q].content = hist.destBefore[q].content
           ELSE /\ src = hist.srcBefore
                /\ dest = hist.destBefore

\* a move that found byte-identical content under another modification time
C4_Witness ==
    /\ Placed /\ hist.outcome = "skipped" /\ removeDuplicates /\ move_files
    /\ SameBytes
    /\ hist.destBefore[dest_file].mtime # hist.srcBefore[src_file].mtime
    /\ src_file \notin DOMAIN src

\* the files of the list that compose to path n, in list order
Colliding(n) ==
    SelectSeq(matched_files,
              LAMBDA q : Compose(hist.src0[q], q.name).path = n)

\* where the k-th file composing to n is expected
Expected(n, k) ==
    LET se == splitext(n.name)
    IN IF k = 1 THEN n ELSE Suffixed(Path(n.dir, se[1]), k - 1, se[2])

PairwiseDifferent(g) ==
    \A i, j \in DOMAIN g :
        i # j => hist.src0[g[i]].content # hist.src0[g[j]].content

\* C5: n files of pairwise different content (any n files when duplicates are
\* kept) that compose to one free name end, in list order, under that name and
\* under the name suffixed _1 .. _(n-1): exactly n files, none displaced.  The
\* suffixed names are taken to be free as well.
C5_CollisionSuffixing ==
    (run = 1 /\ pc = "done")
        => \A first \in DOMAIN hist.src0 :
              LET n == Compose(hist.src0[first], first.name).path
                  g == Colliding(n)
              IN ( /\ (removeDuplicates => PairwiseDifferent(g))
                   /\ \A k \in 1..(Len(g) + 1) : Expected(n, k) \notin DOMAIN hist.dest0 )
                 => /\ \A k \in DOMAIN g :
                          /\ Expected(n, k) \in DOMAIN dest
                          /\ dest[Expected(n, k)].content = hist.src0[g[k]].content
                    /\ Expected(n, Len(g) + 1) \notin DOMAIN dest

-----------------------------------------------------------------------------
(* Another process writing into the destination tree while sortphotos runs *)

MaxExternal == 1

\* a file no source file compares equal to
ExternalFile == StatOf(File(NoExif, << 9, 9, 9 >>, 1592230599))

\* the names the collision loop may come to try
ExternalPaths ==
    IF dest_file = NoPath THEN {}
    ELSE { dest_file, Suffixed(root, append, ext) }

\* the other process creates a file where none is
ExternalCreate ==
    /\ pc \in { "next", "loop", "transfer" }
    /\ Cardinality(DOMAIN hist.external) < MaxExternal
    /\ \E q \in ExternalPaths \ DOMAIN dest :
          /\ dest' = With(dest, q, ExternalFile)
          /\ hist' = [ hist EXCEPT !.external = With(hist.external, q, ExternalFile) ]
    /\ ConfigUnchanged
    /\ LocalsUnchanged
    /\ UNCHANGED << src, destDirs, pc, matched_files, idx, run, arg, res >>

NextConc == Next \/ ExternalCreate

SpecConc == InitPlace /\ [][NextConc]_vars

\* C10: whatever the other process created is still there, unchanged:
\* sortphotos wrote only to paths that held no file at the moment of the write.
C10_ConcurrentWritersSafe ==
    \A q \in DOMAIN hist.external :
        q \in DOMAIN dest /\ dest[q] = hist.external[q]

-----------------------------------------------------------------------------
(* Metadata and naming: one run over files of varied names and fields *)

DateOnly2020 == << << Num(2020), Num(6), Num(15) >> >>
ZeroStamp    == << << Num(0), Num(0), Num(0) >>, << Num(0), Num(0), Num(0) >> >>
ShortDate    == << << Num(2020), Num(6) >>, << Num(14), Num(15), Num(0) >> >>
ShortTime    == << << Num(2020), Num(6), Num(15) >>, << Num(14), Num(15) >> >>
Month13      == << << Num(2020), Num(13), Num(1) >>, << Num(10), Num(0), Num(0) >> >>
Feb30        == << << Num(2021), Num(2), Num(30) >>, << Num(10), Num(0), Num(0) >> >>
Letters      == << << Alpha, Alpha, Alpha >> >>
Year1        == << << Num(1), Num(1), Num(1) >>, << Num(0), Num(30), Num(0) >> >>
NewYear      == << << Num(2021), Num(1), Num(1) >>, << Num(2), Num(15), Num(7) >> >>

ModelSpaced == [ present |-> TRUE, values |-> << "X", " ", "1", "/", "2" >> ]

MetaExifs ==
    { NoExif,
      ExifCam,
      [ NoExif EXCEPT !.DateTimeOriginal = DateOnly2020 ],
      [ NoExif EXCEPT !.DateTimeOriginal = NewYear, !.Model = ModelSpaced ],
      [ NoExif EXCEPT !.DateTimeOriginal = ZeroStamp, !.DateTimeDigitized = Stamp2020 ],
      [ NoExif EXCEPT !.DateTimeOriginal = ShortDate, !.DateTimeDigitized = ShortTime,
                      !.ImageDateTime = NewYear ],
      [ NoExif EXCEPT !.DateTimeOriginal = ShortTime, !.Model = ModelX1 ],
      [ NoExif EXCEPT !.DateTimeOriginal = Month13, !.DateTimeDigitized = Stamp2020 ],
      [ NoExif EXCEPT !.DateTimeDigitized = Feb30, !.ImageDateTime = Stamp2020 ],
      [ NoExif EXCEPT !.ImageDateTime = Letters ],
      [ NoExif EXCEPT !.DateTimeOriginal = Year1 ] }

\* modified 2020-06-15 14:15:00, created 2019-12-31 23:59:59
MetaFiles ==
    { [ content |-> [ exif |-> e, body |-> << 1 >> ],
        mtime |-> 1592230500, btime |-> 1577836799 ] : e \in MetaExifs }

MetaPaths == { Path("top", NameA), Path("top", NameBUp), Path("top", NameD) }

MaxMetaFiles == 1

InitMeta ==
    /\ host \in { "linux", "nt" }
    /\ extensions = << << "j", "p", "g" >>, << "j", "p", "e", "g" >> >>
    /\ ignore_exif \in BOOLEAN
    /\ day_begins \in { 0, 15 }
    /\ move_files = FALSE
    /\ removeDuplicates = TRUE
    /\ rename \in BOOLEAN
    /\ src_exists = TRUE
    /\ dest_exists = TRUE
    /\ src \in Trees(MetaPaths, MetaFiles, MaxMetaFiles)
    /\ dest = EmptyTree
    /\ Fresh

SpecMeta == InitMeta /\ [][Next]_vars

\* C6: once the pre-flight checks have passed, no file's metadata ends the
\* run: every file of the list is taken to a placement.
C6_NeverAborts ==
    (src_exists /\ dest_exists) => pc # "raised"

Candidate == root.name \o ext

InHand == pc \in { "loop", "transfer" } \/ Placed

-----------------------------------------------------------------------------
(* Enumeration: source trees of names in lower, upper and mixed case *)

EnumPaths == { Path("top", NameA), Path("top", NameBUp), Path("top", NameCMix),
               Path("top", NameE), Path("top", NameF), Path("sub", NameA) }

EnumExtensions ==
    { << << "j", "p", "g" >> >>,
      << << "J", "P", "G" >> >>,
      << << "j", "p", "g" >>, << "p", "n", "g" >> >>,
      << << "7" >>, << "j", "p", "g" >> >> }

MaxEnumFiles == 2

InitEnum ==
    /\ host \in { "linux", "darwin", "nt" }
    /\ extensions \in EnumExtensions
    /\ ignore_exif = FALSE
    /\ day_begins = 0
    /\ move_files \in BOOLEAN
    /\ removeDuplicates = TRUE
    /\ rename = FALSE
    /\ src_exists = TRUE
    /\ dest_exists = TRUE
    /\ src \in Trees(EnumPaths, { File(NoExif, << 1 >>, 1592230500) }, MaxEnumFiles)
    /\ dest = EmptyTree
    /\ Fresh

SpecEnum == InitEnum /\ [][Next]_vars

Count(seq, x) == Cardinality({ i \in DOMAIN seq : seq[i] = x })

\* the extension of the name is a configured extension, letter case ignored
Wanted(name) ==
    \E i \in DOMAIN extensions :
        Lower(splitext(name)[2]) = << "." >> \o Lower(extensions[i])

\* C7: the list holds, exactly once each, the files whose extension is a
\* configured one when letter case is ignored, and no other file.
C7_EnumerationExactlyOnce ==
    (pc = "next" /\ idx = 0)
        => \A q \in DOMAIN src :
              Count(matched_files, q) = (IF Wanted(q.name) THEN 1 ELSE 0)

-----------------------------------------------------------------------------
(* check_for_early_morning_photos applied on its own *)

DateYears   == { 1, 1900, 2000, 2021 }
DateMonths  == { 1, 3, 12 }
DateMinSecs == { 0, 59 }

DateInputs ==
    { [ year |-> y, month |-> mo, day |-> d, hour |-> h, minute |-> mi, second |-> s ] :
        y \in DateYears, mo \in DateMonths, d \in { 1, 31 }, h \in 0..23,
        mi \in DateMinSecs, s \in DateMinSecs }

InitDate ==
    /\ host = "linux"
    /\ extensions = << >>
    /\ ignore_exif = FALSE
    /\ day_begins \in 0..23
    /\ move_files = FALSE
    /\ removeDuplicates = TRUE
    /\ rename = TRUE
    /\ src_exists = TRUE
    /\ dest_exists = TRUE
    /\ src = EmptyTree
    /\ dest = EmptyTree
    /\ destDirs = {}
    /\ Locals0
    /\ run = 1
    /\ hist = NoHist
    /\ pc = "call"
    /\ arg \in DateInputs
    /\ res = Ok(NoDate)

\* line 201: date = check_for_early_morning_photos(date, day_begins)
EarlyMorning ==
    /\ pc = "call"
    /\ res' = check_for_early_morning_photos(arg, day_begins)
    /\ pc' = "returned"
    /\ ConfigUnchanged
    /\ LocalsUnchanged
    /\ UNCHANGED << src, dest, destDirs, matched_files, idx, run, hist, arg >>

SpecDate == InitDate /\ [][EarlyMorning]_vars

\* the calendar day before the day of dt, at 23 h and dt's minute and second
EveBefore(dt) ==
    LET last == IF dt.month = 1 THEN 31
                ELSE IF dt.month = 3
                     THEN (IF dt.year % 4 = 0 /\ (dt.year % 100 # 0 \/ dt.year % 400 = 0)
                           THEN 29 ELSE 28)
                     ELSE IF dt.month \in { 5, 7, 10, 12 } THEN 30 ELSE 31
    IN [ year   |-> IF dt.day = 1 /\ dt.month = 1 THEN dt.year - 1 ELSE dt.year,
         month  |-> IF dt.day > 1 THEN dt.month
                    ELSE IF dt.month = 1 THEN 12 ELSE dt.month - 1,
         day    |-> IF dt.day > 1 THEN dt.day - 1 ELSE last,
         hour   |-> 23, minute |-> dt.minute, second |-> dt.second ]

\* C9 as stated: unchanged from day_begins on, else 23:m:s of the day before,
\* for every date-time.
C9_AsStated ==
    pc = "returned" =>
        /\ res.exc = "none"
        /\ res.val = (IF arg.hour >= day_begins THEN arg ELSE EveBefore(arg))

FirstDay(dt) == dt.year = 1 /\ dt.month = 1 /\ dt.day = 1

\* C9 amended: unchanged from day_begins on (so never changed when day_begins
\* is 0); before day_begins, 23:m:s of the preceding calendar day, across
\* month and year ends, except on 0001-01-01, which has no preceding day:
\* there the subtraction raises OverflowError.
C9_EarlyMorningRollback ==
    pc = "returned" =>
        IF arg.hour >= day_begins THEN res = Ok(arg)
        ELSE IF FirstDay(arg) THEN res.exc = "OverflowError"
        ELSE res = Ok(EveBefore(arg))

\* 2000-03-01 02:59:59 with day_begins above 2 falls on 2000-02-29
C9_Witness ==
    /\ pc = "returned"
    /\ arg.year = 2000 /\ arg.month = 3 /\ arg.day = 1 /\ arg.hour = 2
    /\ day_begins = 6
    /\ res.exc = "none"
    /\ res.val.month = 2 /\ res.val.day = 29 /\ res.val.hour = 23

=============================================================================
